---- MODULE Spec2Model ----
(***************************************************************************)
(* Full-site audit orchestrator of skills/seo-audit/scripts/run_audit.py:  *)
(* the target resolver (normalize_url, is_public_target), the three        *)
(* redirect walkers (fetch_page, build_robots, try_fetch_exists), the      *)
(* crawl engine (crawl_site) and the track orchestrator                    *)
(* (run_specialist_orchestration).                                         *)
(*                                                                         *)
(* Environment.  A URL is a record [scheme, host, path, frag]; a host is   *)
(* its sequence of labels and a path its sequence of tokens, so that the   *)
(* suffix test of same_site and the prefix test of robots rules are        *)
(* computed.  The empty path <<>> and the root path <<"/">> are two        *)
(* spellings that reach the same resource of a server.  The site is        *)
(* static: a resource answers the same way every time it is requested;     *)
(* its answer is drawn the first time it is requested and kept in          *)
(* "served".  The other site may answer differently each time.  Name       *)
(* resolution is a fixed table, Resolve.                                   *)
(***************************************************************************)
EXTENDS Integers, Sequences, FiniteSets, TLC

\* ---------------------------------------------------------------- bounds

\* Largest page budget (max_pages) a run is started with.
MaxPagesBound == 3

\* Largest number of same-site links one page carries.
MaxLinks == 2

\* Number of tracks of the menu that are run (the menu's first ones).
NumTracks == 3

\* ------------------------------------------------------------- constants

MAX_REDIRECT_HOPS == 10

\* "status_code": None of a fetch result, among integer status codes.
NoStatus == 0

\* "max_workers = min(7, len(track_specs))"
WORKER_CAP == 7

\* ------------------------------------------------------------------ URLs

Site == <<"example", "com">>
Intranet == <<"intranet", "example", "com">>
Cdn == <<"cdn", "example", "com">>
Gone == <<"gone", "example", "com">>
BadLabel == <<"a", "", "example", "com">>
Other == <<"other", "org">>

EmptyPath == <<>>
RootPath == <<"/">>
PathA == <<"/", "a">>
PathB == <<"/", "b">>
RobotsPath == <<"/", "robots.txt">>

Url(s, h, p, f) == [scheme |-> s, host |-> h, path |-> p, frag |-> f]

Https(h, p) == Url("https", h, p, "")

Home == Https(Site, RootPath)

\* Name resolution of the model's hosts: the address classes getaddrinfo
\* returns, or the exception it raises.  "gaierror" is a resolver failure;
\* "UnicodeError" is what the idna encoding of a host with an empty or
\* over-long label raises before any lookup.
Resolve(h) ==
    CASE h = Site -> [raises |-> "", addrs |-> <<"public">>]
      [] h = Intranet -> [raises |-> "", addrs |-> <<"private">>]
      [] h = Cdn -> [raises |-> "", addrs |-> <<"loopback", "unparseable", "public">>]
      [] h = Gone -> [raises |-> "gaierror", addrs |-> <<>>]
      [] h = BadLabel -> [raises |-> "UnicodeError", addrs |-> <<>>]
      [] h = Other -> [raises |-> "", addrs |-> <<"public">>]
      [] OTHER -> [raises |-> "gaierror", addrs |-> <<>>]

\* normalize_url raises ValueError for a scheme outside http and https.
UnsupportedScheme(u) == u.scheme \notin {"", "http", "https"}

\* normalize_url on a URL it accepts: a missing scheme becomes https, an
\* empty path becomes "/", params and fragment are dropped.
NormalizeUrl(u) ==
    Url(IF u.scheme = "" THEN "https" ELSE u.scheme,
        u.host,
        IF u.path = EmptyPath THEN RootPath ELSE u.path,
        "")

\* strip_fragment: only the fragment is dropped, the path is kept as spelled.
StripFragment(u) == Url(u.scheme, u.host, u.path, "")

\* is_public_target raises what getaddrinfo raises, socket.gaierror excepted.
IsPublicTargetRaises(u) ==
    /\ u.host # <<>>
    /\ Resolve(u.host).raises \notin {"", "gaierror"}

\* The mutant of IsPublicTarget: the closing "return False" turned into
\* "return True" (addresses all skipped, target accepted).
IsPublicTargetDefaultAllow(u) ==
    /\ u.host # <<>>
    /\ Resolve(u.host).raises = ""

\* is_public_target: false without a host or on gaierror; true at the first
\* address that parses and is none of private, loopback, reserved,
\* link-local, multicast.
IsPublicTarget(u) ==
    /\ u.host # <<>>
    /\ Resolve(u.host).raises = ""
    /\ \E i \in 1..Len(Resolve(u.host).addrs) :
          LET ip == Resolve(u.host).addrs[i] IN
          /\ ip # "unparseable"
          /\ ~(ip = "private" \/ ip = "loopback" \/ ip = "reserved"
               \/ ip = "link_local" \/ ip = "multicast")


\* ------------------------------------------------------------ the servers

\* What the "Location" header of a response holds.
NoLocation == [present |-> FALSE, url |-> Home]

LocationOf(u) == [present |-> TRUE, url |-> u]

\* The values urljoin(current_url, location) takes for the redirects of the
\* model's servers.
Locations ==
    { Https(Site, PathA),
      Url("https", Site, PathB, "top"),
      Https(Site, EmptyPath),
      Https(Intranet, RootPath),
      Https(BadLabel, RootPath),
      Https(Other, RootPath),
      Url("ftp", Site, PathA, "") }

\* The same-site URLs the anchors of the model's pages point to, as
\* parse_html returns them (joined to the base, fragment stripped).
LinkTargets ==
    { Https(Site, EmptyPath),
      Https(Site, PathA),
      Https(Site, PathB),
      Https(Intranet, RootPath) }

\* The "Disallow:" path prefixes of the robots.txt bodies, for the agent
\* group that applies to the crawler.
RuleSets == { {}, {PathA}, {RootPath} }

Response(st, loc, html, links, disallow) ==
    [known |-> TRUE, exc |-> FALSE, status |-> st, location |-> loc,
     html |-> html, links |-> links, disallow |-> disallow]

\* requests raises a RequestException (connection error, timeout, ...).
RequestException ==
    [known |-> TRUE, exc |-> TRUE, status |-> NoStatus, location |-> NoLocation,
     html |-> FALSE, links |-> {}, disallow |-> {}]

\* No answer drawn yet for a resource.
NotRequested ==
    [known |-> FALSE, exc |-> FALSE, status |-> NoStatus, location |-> NoLocation,
     html |-> FALSE, links |-> {}, disallow |-> {}]

Redirects ==
    { Response(301, l, FALSE, {}, {}) :
        l \in {NoLocation} \cup { LocationOf(u) : u \in Locations } }

PageResponses ==
    { Response(200, NoLocation, TRUE, L, {}) :
        L \in { S \in SUBSET LinkTargets : Cardinality(S) <= MaxLinks } }
    \cup { Response(200, NoLocation, FALSE, {}, {}),
           Response(404, NoLocation, FALSE, {}, {}),
           RequestException }
    \cup Redirects

RobotsResponses ==
    { Response(200, NoLocation, FALSE, {}, d) : d \in RuleSets }
    \cup { Response(404, NoLocation, FALSE, {}, {}),
           Response(301, LocationOf(Https(Site, PathA)), FALSE, {}, {}),
           Response(301, LocationOf(Https(Intranet, RobotsPath)), FALSE, {}, {}),
           RequestException }

\* The resource a request for u reaches: the host and the path, an empty
\* path being sent as "/".
Res(u) == [host |-> u.host, path |-> IF u.path = EmptyPath THEN RootPath ELSE u.path]

Resources ==
    { [host |-> h, path |-> p] :
        h \in {Site, Intranet, Cdn, Gone, BadLabel, Other},
        p \in {RootPath, PathA, PathB, RobotsPath} }

\* The answers of the other site: a page with a link to the start site and a
\* link to itself, an error, or a redirect to itself.
OtherResponses ==
    { Response(200, NoLocation, TRUE, {Https(Site, PathA), Https(Other, PathA)}, {}),
      Response(404, NoLocation, FALSE, {}, {}),
      Response(301, LocationOf(Https(Other, RootPath)), FALSE, {}, {}),
      RequestException }

ResponsesFor(r) ==
    IF r.host = Other THEN OtherResponses
    ELSE IF r.path = RobotsPath THEN RobotsResponses
    ELSE PageResponses

VARIABLES
    served,         \* resource -> the answer it gives (NotRequested: not drawn yet)
    walker,         \* the redirect walker running: its function's name
    wpc,            \* its position: "idle", "check", "get", "done", "raised"
    current_url,    \* its current_url
    redirect_hops,  \* its redirect_hops / redirects counter
    result,         \* what it returns
    vetted,         \* the URLs is_public_target accepted since current_url was set
    sent,           \* the HTTP GETs it issued, in order
    pc,             \* crawl_site's position: "start", "robots", "loop", "fetching",
                    \*   "done" (returned), "raised" (left by an exception), "idle"
    max_pages,      \* crawl_site's page budget
    queue,          \* crawl_site's queue
    seen,           \* crawl_site's seen
    pages,          \* crawl_site's pages
    crawl_info,     \* crawl_site's crawl_info
    rp,             \* the ruleset build_robots returned
    current,        \* the URL popped for the running iteration
    sleeps,         \* the calls of time.sleep(delay) crawl_site has made
    opc,            \* run_specialist_orchestration's position: "start", "pool",
                    \*   "unwinding", "returned", "raised", "idle"
    futures,        \* track name -> its future: state and what run_track gave
    completed,      \* the tracks in the order their futures completed
    results,        \* run_specialist_orchestration's results
    orchestration,  \* the dict it returns
    npc,            \* normalize_url called twice in a row: "input", "once", "twice",
                    \*   "raised" (ValueError), "idle"
    raw,            \* normalize_url's argument, a string as its sequence of tokens
    normalized,     \* normalize_url(raw)
    renormalized,   \* normalize_url(normalize_url(raw))
    apc,            \* aggregate_health_score's position: "input", "returned", "idle"
    scores,         \* its argument: the (name, score) items of the dict, in its order
    health,         \* the tuple it returns: health_score (in tenths), not_measured
    ipc,            \* the issue list of compute_scores: "collecting", "sorted", "idle"
    issues          \* compute_scores' issues

walkVars == <<walker, wpc, current_url, redirect_hops, result, vetted, sent>>

crawlVars == <<pc, max_pages, queue, seen, pages, crawl_info, rp, current, sleeps>>

orchVars == <<opc, futures, completed, results, orchestration>>

pureVars == <<npc, raw, normalized, renormalized, apc, scores, health, ipc, issues>>

vars == <<served, walkVars, crawlVars, orchVars, pureVars>>

\* The resources whose answer may change from one request to the next (a
\* redirect that depends on a session or a counter): those of the other site.
Dynamic(r) == r.host = Other

\* The answers a request for u can get.
Answers(u) ==
    IF served[Res(u)].known THEN {served[Res(u)]} ELSE ResponsesFor(Res(u))

\* The answers kept once u has answered r.
Remember(u, r) ==
    IF Dynamic(Res(u)) THEN served ELSE [served EXCEPT ![Res(u)] = r]


\* ------------------------------------------------- the redirect walkers

Walkers == {"fetch_page", "build_robots", "try_fetch_exists"}

\* robots: no ruleset (None), or the parsed rules.
NoRp == [present |-> FALSE, disallow |-> {}]

\* The result a walker starts from: fetch_page's result dict as initialised,
\* and the values build_robots and try_fetch_exists return on a failure.
InitialResult(kind, url) ==
    CASE kind = "fetch_page" ->
           [url |-> url, status_code |-> NoStatus, html |-> FALSE, links |-> {},
            redirect_hops |-> 0, error |-> "None", final_url |-> url]
      [] kind = "build_robots" -> [rp |-> NoRp, robots_url |-> url]
      [] OTHER -> [exists |-> FALSE]

\* The walker gives up: fetch_page sets result["error"], build_robots returns
\* (None, at), try_fetch_exists returns False.
Failed(kind, res, reason, at) ==
    CASE kind = "fetch_page" -> [res EXCEPT !.error = reason]
      [] kind = "build_robots" -> [rp |-> NoRp, robots_url |-> at]
      [] OTHER -> [exists |-> FALSE]

\* The mutant of ErrorStatus: only the 5xx answers taken as errors.
ErrorStatusServerOnly(status) == status >= 500

\* "if response.status_code >= 400"
ErrorStatus(status) == status >= 400

\* The walker returns the response r received from url "at" after "hops" hops.
Returned(kind, res, r, hops, at) ==
    CASE kind = "fetch_page" ->
           [res EXCEPT !.status_code = r.status, !.html = r.html, !.links = r.links,
                       !.redirect_hops = hops, !.final_url = at]
      [] kind = "build_robots" ->
           IF ErrorStatus(r.status)
             THEN [rp |-> NoRp, robots_url |-> at]
             ELSE [rp |-> [present |-> TRUE, disallow |-> r.disallow], robots_url |-> at]
      [] OTHER -> [exists |-> r.status < 400]

\* The mutant of TooManyRedirects: the cap compared with > instead of >=.
TooManyRedirectsOffByOne(hops) == hops > MAX_REDIRECT_HOPS

\* "if redirect_hops >= MAX_REDIRECT_HOPS".
TooManyRedirects(hops) == hops >= MAX_REDIRECT_HOPS

\* The mutant of HopsReturned: the count of the hops left at its initial 0.
HopsReturnedZero(hops) == 0

\* result["redirect_hops"] = redirect_hops.
HopsReturned(hops) == hops

\* A walker is entered with url: counters reset, nothing checked or sent yet.
StartWalk(kind, url) ==
    /\ walker' = kind
    /\ wpc' = "check"
    /\ current_url' = url
    /\ redirect_hops' = 0
    /\ result' = InitialResult(kind, url)
    /\ vetted' = {}
    /\ sent' = <<>>

\* The head of the walker's loop: "if not is_public_target(current_url)".
\* An exception of is_public_target leaves fetch_page and try_fetch_exists
\* (nothing there catches it) and is caught by build_robots.
WalkCheckStep ==
    /\ wpc = "check"
    /\ IF IsPublicTargetRaises(current_url)
         THEN /\ wpc' = IF walker = "build_robots" THEN "done" ELSE "raised"
              /\ result' = IF walker = "build_robots"
                             THEN Failed(walker, result, "", current_url)
                             ELSE result
              /\ vetted' = vetted
         ELSE IF ~IsPublicTarget(current_url)
         THEN /\ wpc' = "done"
              /\ result' = Failed(walker, result,
                     "redirected target URL resolves to non-public or invalid host",
                     current_url)
              /\ vetted' = vetted
         ELSE /\ wpc' = "get"
              /\ result' = result
              /\ vetted' = {current_url}
    /\ UNCHANGED <<served, walker, current_url, redirect_hops, sent>>

\* One GET with allow_redirects=False and all that follows it up to the next
\* loop head or the return.
WalkGetStep ==
    /\ wpc = "get"
    /\ \E r \in Answers(current_url) :
         /\ served' = Remember(current_url, r)
         /\ sent' = Append(sent, [url |-> current_url,
                                  vetted |-> current_url \in vetted,
                                  status |-> r.status])
         /\ IF r.exc
              THEN /\ wpc' = "done"
                   /\ result' = Failed(walker, result, "RequestException", current_url)
                   /\ UNCHANGED <<current_url, redirect_hops, vetted>>
            ELSE IF 300 <= r.status /\ r.status < 400
              THEN IF ~r.location.present
                     THEN \* fetch_page breaks out and returns the 3xx response
                          /\ wpc' = "done"
                          /\ result' = IF walker = "fetch_page"
                                         THEN Returned(walker, result, r,
                                                       HopsReturned(redirect_hops),
                                                       current_url)
                                         ELSE Failed(walker, result, "", current_url)
                          /\ UNCHANGED <<current_url, redirect_hops, vetted>>
                   ELSE IF TooManyRedirects(redirect_hops)
                     THEN /\ wpc' = "done"
                          /\ result' = Failed(walker, result,
                                              "Too many redirects (>10)", current_url)
                          /\ UNCHANGED <<current_url, redirect_hops, vetted>>
                   ELSE IF UnsupportedScheme(r.location.url)
                     THEN /\ wpc' = "done"
                          /\ result' = Failed(walker, result,
                                              "Invalid redirect URL", current_url)
                          /\ UNCHANGED <<current_url, redirect_hops, vetted>>
                   ELSE LET next_url == NormalizeUrl(r.location.url) IN
                        IF IsPublicTargetRaises(next_url)
                          THEN /\ wpc' = IF walker = "build_robots" THEN "done" ELSE "raised"
                               /\ result' = IF walker = "build_robots"
                                              THEN Failed(walker, result, "", current_url)
                                              ELSE result
                               /\ UNCHANGED <<current_url, redirect_hops, vetted>>
                        ELSE IF ~IsPublicTarget(next_url)
                          THEN /\ wpc' = "done"
                               /\ result' = Failed(walker, result,
                                      "redirected target URL resolves to non-public or invalid host",
                                      next_url)
                               /\ UNCHANGED <<current_url, redirect_hops, vetted>>
                        ELSE /\ wpc' = "check"
                             /\ current_url' = next_url
                             /\ redirect_hops' = redirect_hops + 1
                             /\ vetted' = {next_url}
                             /\ result' = result
            ELSE /\ wpc' = "done"
                 /\ result' = Returned(walker, result, r, HopsReturned(redirect_hops),
                                       current_url)
                 /\ UNCHANGED <<current_url, redirect_hops, vetted>>
    /\ UNCHANGED walker


\* ------------------------------------------------------- the crawl engine

start_url == Home

\* urljoin(start_url, "/robots.txt")
RobotsUrl == Https(Site, RobotsPath)

IsPrefix(p, q) == Len(p) <= Len(q) /\ SubSeq(q, 1, Len(p)) = p

\* normalize_host: a leading "www." is dropped.
NormalizeHost(h) == IF Len(h) > 1 /\ h[1] = "www" THEN Tail(h) ELSE h

\* same_site: equal hosts, or one a subdomain of the other.
SameSite(a, b) ==
    LET x == NormalizeHost(a.host)
        y == NormalizeHost(b.host)
        Sub(m, n) == Len(m) > Len(n) /\ SubSeq(m, Len(m) - Len(n) + 1, Len(m)) = n
    IN  /\ x # <<>>
        /\ y # <<>>
        /\ (x = y \/ Sub(x, y) \/ Sub(y, x))

\* The mutant of CanFetch: every URL allowed.
CanFetchAllowAll(rules, u) == TRUE

\* rp.can_fetch(USER_AGENT, url): the path of the URL, "/" when empty, is
\* matched against the Disallow prefixes; the host is not looked at.
CanFetch(rules, u) ==
    LET path == IF u.path = EmptyPath THEN RootPath ELSE u.path
    IN  ~(\E d \in rules.disallow : IsPrefix(d, path))

\* The model's URLs in the order Python sorts their strings.
UrlOrder ==
    << Https(BadLabel, RootPath),
       Https(Cdn, RootPath),
       Https(Site, EmptyPath),
       Https(Site, RootPath),
       Https(Site, PathA),
       Https(Site, PathB),
       Https(Site, RobotsPath),
       Https(Gone, RootPath),
       Https(Intranet, RootPath),
       Https(Intranet, RobotsPath),
       Https(Other, RootPath),
       Https(Other, PathA) >>

\* sorted(set(...)) of a set of URLs.
Sorted(S) == SelectSeq(UrlOrder, LAMBDA u : u \in S)

\* parse_html's internal_links: the anchors that are same-site with the base.
InternalLinks(links, base_url) ==
    Sorted({ StripFragment(l) : l \in { k \in links : SameSite(base_url, k) } })

\* The mutant of LoopCondition: the budget compared with <= instead of <.
LoopConditionOffByOne(q, s, budget) == q # <<>> /\ Cardinality(s) <= budget

\* "while queue and len(seen) < max_pages"
LoopCondition(q, s, budget) == q # <<>> /\ Cardinality(s) < budget

\* The mutant of PopLeft: the head read and left in the queue.
PopLeftPeek(q) == q

\* queue.popleft(): the queue after it.
PopLeft(q) == Tail(q)

PageResult(url, status_code, internal_links, fetch_error, hops, is_html) ==
    [url |-> url, status_code |-> status_code, internal_links |-> internal_links,
     fetch_error |-> fetch_error, redirect_hops |-> hops, is_html |-> is_html]

NoFuture == [state |-> "none", raises |-> FALSE, mkdir_ok |-> TRUE, proc |-> "", name |-> "",
             status |-> "", exit_code |-> 0, reason |-> ""]

NoOrchestration == [total_tracks |-> 0, success_count |-> 0, failed_tracks |-> <<>>,
                    tracks |-> <<>>]

\* Nothing of normalize_url, aggregate_health_score or the issue list is running.
PureIdle ==
    /\ npc = "idle"
    /\ raw = <<>>
    /\ normalized = <<>>
    /\ renormalized = <<>>
    /\ apc = "idle"
    /\ scores = <<>>
    /\ health = [health_score |-> 0, not_measured |-> <<>>]
    /\ ipc = "idle"
    /\ issues = <<>>

OrchIdle ==
    /\ opc = "idle"
    /\ futures = <<>>
    /\ completed = <<>>
    /\ results = <<>>
    /\ orchestration = NoOrchestration

WalkIdle ==
    /\ walker = "none"
    /\ wpc = "idle"
    /\ current_url = Home
    /\ redirect_hops = 0
    /\ result = [exists |-> FALSE]
    /\ vetted = {}
    /\ sent = <<>>

CrawlIdle ==
    /\ pc = "idle"
    /\ max_pages = 0
    /\ queue = <<>>
    /\ seen = {}
    /\ pages = <<>>
    /\ crawl_info = [skipped_by_robots |-> 0, fetch_errors |-> 0, visited |-> 0,
                     robots_url |-> RobotsUrl]
    /\ rp = NoRp
    /\ current = start_url
    /\ sleeps = 0

\* crawl_site's delay, in seconds: the default of --delay.
delay == 1

\* crawl_site is entered: queue seeded with start_url, counters at 0.
InitCrawl ==
    /\ served = [r \in Resources |-> NotRequested]
    /\ WalkIdle
    /\ pc = "start"
    /\ max_pages \in 1..MaxPagesBound
    /\ queue = <<start_url>>
    /\ seen = {}
    /\ pages = <<>>
    /\ crawl_info = [skipped_by_robots |-> 0, fetch_errors |-> 0, visited |-> 0,
                     robots_url |-> RobotsUrl]
    /\ rp = NoRp
    /\ current = start_url
    /\ sleeps = 0
    /\ OrchIdle
    /\ PureIdle

\* "rp, robots_url = build_robots(start_url, timeout)": the call.
CrawlStart ==
    /\ pc = "start"
    /\ StartWalk("build_robots", RobotsUrl)
    /\ pc' = "robots"
    /\ UNCHANGED <<served, max_pages, queue, seen, pages, crawl_info, rp, current, sleeps,
                   orchVars, pureVars>>

\* build_robots has returned.
RobotsReturn ==
    /\ pc = "robots"
    /\ wpc = "done"
    /\ rp' = result.rp
    /\ crawl_info' = [crawl_info EXCEPT !.robots_url = result.robots_url]
    /\ pc' = "loop"
    /\ wpc' = "idle"
    /\ UNCHANGED <<served, walker, current_url, redirect_hops, result, vetted, sent,
                   max_pages, queue, seen, pages, current, sleeps, orchVars, pureVars>>

\* The loop test and the iteration up to the call of fetch_page.
CrawlLoop ==
    /\ pc = "loop"
    /\ IF ~LoopCondition(queue, seen, max_pages)
         THEN /\ pc' = "done"
              /\ UNCHANGED <<walkVars, queue, seen, crawl_info, current>>
         ELSE /\ current' = Head(queue)
              /\ queue' = PopLeft(queue)
              /\ IF current' \in seen
                   THEN /\ pc' = "loop"
                        /\ UNCHANGED <<walkVars, seen, crawl_info>>
                 ELSE IF rp.present /\ ~CanFetch(rp, current')
                   THEN /\ crawl_info' = [crawl_info EXCEPT !.skipped_by_robots = @ + 1]
                        /\ seen' = seen \cup {current'}
                        /\ pc' = "loop"
                        /\ UNCHANGED walkVars
                 ELSE /\ seen' = seen \cup {current'}
                      /\ StartWalk("fetch_page", current')
                      /\ pc' = "fetching"
                      /\ UNCHANGED crawl_info
    /\ UNCHANGED <<served, max_pages, pages, rp, sleeps, orchVars, pureVars>>

\* The mutant of ShouldEnqueue: the site of the link not looked at.
ShouldEnqueueAnySite(link, s) == link \notin s

\* "if link not in seen and same_site(start_url, link)"
ShouldEnqueue(link, s) == link \notin s /\ SameSite(start_url, link)

\* fetch_page has returned: the rest of the iteration.
FetchReturn ==
    /\ pc = "fetching"
    /\ wpc = "done"
    /\ IF result.error # "None"
         THEN /\ crawl_info' = [crawl_info EXCEPT !.fetch_errors = @ + 1]
              /\ pages' = Append(pages,
                     PageResult(current, NoStatus, <<>>, result.error, 0, FALSE))
              /\ UNCHANGED <<queue, seen, sleeps>>
         ELSE LET final_url == NormalizeUrl(result.final_url)
                  seen1 == seen \cup {final_url}
                  internal_links == IF result.html
                                      THEN InternalLinks(result.links, final_url)
                                      ELSE <<>>
              IN  /\ seen' = seen1
                  /\ pages' = Append(pages,
                         PageResult(final_url, result.status_code, internal_links,
                                    "None", result.redirect_hops, result.html))
                  /\ queue' = queue \o SelectSeq(internal_links,
                                 LAMBDA link : ShouldEnqueue(link, seen1))
                  /\ crawl_info' = [crawl_info EXCEPT !.visited = Cardinality(seen1)]
                  /\ sleeps' = IF delay > 0 THEN sleeps + 1 ELSE sleeps
    /\ pc' = "loop"
    /\ wpc' = "idle"
    /\ UNCHANGED <<served, walker, current_url, redirect_hops, result, vetted, sent,
                   max_pages, rp, current, orchVars, pureVars>>

\* An exception left fetch_page: nothing in crawl_site catches it.
FetchRaise ==
    /\ pc = "fetching"
    /\ wpc = "raised"
    /\ pc' = "raised"
    /\ UNCHANGED <<served, walkVars, max_pages, queue, seen, pages, crawl_info, rp, current,
                   sleeps, orchVars, pureVars>>

\* One step of the walker on behalf of its caller.
WalkCheck == WalkCheckStep /\ UNCHANGED <<crawlVars, orchVars, pureVars>>

WalkGet == WalkGetStep /\ UNCHANGED <<crawlVars, orchVars, pureVars>>

Next ==
    \/ CrawlStart
    \/ WalkCheck
    \/ WalkGet
    \/ RobotsReturn
    \/ CrawlLoop
    \/ FetchReturn
    \/ FetchRaise

Spec == InitCrawl /\ [][Next]_vars

\* ---------------------------------------------- a walker called on its own

WalkStarts ==
    { Home, Https(Site, PathA), Https(Intranet, RootPath), Https(Cdn, RootPath),
      Https(Gone, RootPath), Https(BadLabel, RootPath), Https(Other, RootPath),
      RobotsUrl }

InitWalk ==
    /\ served = [r \in Resources |-> NotRequested]
    /\ CrawlIdle
    /\ OrchIdle
    /\ PureIdle
    /\ walker \in Walkers
    /\ wpc = "check"
    /\ current_url \in WalkStarts
    /\ redirect_hops = 0
    /\ result = InitialResult(walker, current_url)
    /\ vetted = {}
    /\ sent = <<>>

NextWalk ==
    \/ WalkCheck
    \/ WalkGet

SpecWalk == InitWalk /\ [][NextWalk]_vars

\* ------------------------------------------------- the track orchestrator

\* The names of _build_orchestration_tracks' menu, in its order.
TrackMenu == <<"technical", "content", "schema", "sitemap", "images", "page", "geo">>

track_specs == SubSeq(TrackMenu, 1, NumTracks)

TrackNames == { track_specs[i] : i \in 1..Len(track_specs) }

\* "indexed": the place of a name in track_specs (999 for an unknown name).
Indexed(name) ==
    IF \E i \in 1..Len(track_specs) : track_specs[i] = name
      THEN CHOOSE i \in 1..Len(track_specs) : track_specs[i] = name
      ELSE 999

\* The mutant of MaxWorkers: no worker when the tracks are fewer than the cap.
MaxWorkersNone == IF Len(track_specs) < WORKER_CAP THEN 0 ELSE WORKER_CAP

\* "max_workers = min(7, len(track_specs))"
MaxWorkers == IF Len(track_specs) < WORKER_CAP THEN Len(track_specs) ELSE WORKER_CAP

\* How a track's subprocess.run ends: exit code 0, a non-zero exit code,
\* TimeoutExpired, or another exception (the interpreter cannot be started).
ProcOutcomes == {"exit0", "exit1", "TimeoutExpired", "OSError"}

\* The SUMMARY.json the track left: none, a JSON object, or a JSON value that
\* is no object (a number, a list holding a metric key) on which
\* _extract_summary_metrics raises TypeError.
Summaries == {"missing", "object", "not_object"}

\* run_track: what the worker returns, or that it raises.  out_dir.mkdir
\* comes before the try; the try catches every exception of subprocess.run;
\* the reading of the summary comes after it.  Of the dict it returns, the
\* name, status, exit_code and reason are kept (the summary metrics, report
\* files and output tails are not read by the orchestrator).
RunTrack(name, mkdir_ok, proc, summary) ==
    [state |-> "finished",
     raises |-> ~mkdir_ok \/ summary = "not_object",
     mkdir_ok |-> mkdir_ok,
     proc |-> IF mkdir_ok THEN proc ELSE "",
     name |-> name,
     status |-> IF mkdir_ok /\ proc = "exit0" THEN "ok" ELSE "failed",
     exit_code |-> IF ~mkdir_ok THEN -1
                   ELSE IF proc = "exit0" THEN 0
                   ELSE IF proc = "exit1" THEN 1
                   ELSE -1,
     reason |-> IF ~mkdir_ok THEN ""
                ELSE IF proc = "TimeoutExpired" THEN "timeout"
                ELSE IF proc = "OSError" THEN "str(exc)"
                ELSE ""]

\* The mutant of SortByIndex: the results left in the order they were collected.
SortByIndexSkipped(rs) == rs

\* "results.sort(key=lambda item: indexed.get(str(item["name"]), 999))"
SortByIndex(rs) ==
    LET Place(i) == Cardinality({ j \in 1..Len(rs) :
                        \/ Indexed(rs[j].name) < Indexed(rs[i].name)
                        \/ (Indexed(rs[j].name) = Indexed(rs[i].name) /\ j <= i) })
    IN  [k \in 1..Len(rs) |-> rs[CHOOSE i \in 1..Len(rs) : Place(i) = k]]

\* The dict run_specialist_orchestration builds from the sorted results.
Orchestration(rs) ==
    [total_tracks |-> Len(rs),
     success_count |-> Cardinality({ i \in 1..Len(rs) : rs[i].status = "ok" }),
     failed_tracks |-> LET failed == SelectSeq(rs, LAMBDA item : item.status # "ok")
                       IN  [i \in 1..Len(failed) |-> failed[i].name],
     tracks |-> rs]

InState(st) == { t \in TrackNames : futures[t].state = st }

InitOrch ==
    /\ served = [r \in Resources |-> NotRequested]
    /\ WalkIdle
    /\ CrawlIdle
    /\ PureIdle
    /\ opc = "start"
    /\ futures = [t \in TrackNames |-> NoFuture]
    /\ completed = <<>>
    /\ results = <<>>
    /\ orchestration = NoOrchestration

\* "futures = [pool.submit(run_track, item) for item in track_specs]"
Submit ==
    /\ opc = "start"
    /\ futures' = [t \in TrackNames |-> [NoFuture EXCEPT !.state = "pending", !.name = t]]
    /\ opc' = "pool"
    /\ UNCHANGED <<served, walkVars, crawlVars, pureVars, completed, results, orchestration>>

\* A free worker of the pool takes the oldest pending track.
TrackBegin(t) ==
    /\ opc \in {"pool", "unwinding"}
    /\ futures[t].state = "pending"
    /\ Cardinality(InState("running")) < MaxWorkers
    /\ \A u \in InState("pending") : Indexed(t) <= Indexed(u)
    /\ futures' = [futures EXCEPT ![t].state = "running"]
    /\ UNCHANGED <<served, walkVars, crawlVars, pureVars, opc, completed, results, orchestration>>

\* run_track ends in its worker: the future holds its dict or its exception.
TrackEnd(t) ==
    /\ opc \in {"pool", "unwinding"}
    /\ futures[t].state = "running"
    /\ \E mkdir_ok \in BOOLEAN, proc \in ProcOutcomes, summary \in Summaries :
         futures' = [futures EXCEPT ![t] = RunTrack(t, mkdir_ok, proc, summary)]
    /\ completed' = Append(completed, t)
    /\ UNCHANGED <<served, walkVars, crawlVars, pureVars, opc, results, orchestration>>

\* One turn of "for fut in as_completed(futures): results.append(fut.result())",
\* the futures taken in the order they completed: fut.result() raises what
\* run_track raised, which leaves the loop.
Collect(t) ==
    /\ opc = "pool"
    /\ futures[t].state = "finished"
    /\ \A i, j \in 1..Len(completed) :
          (completed[i] = t /\ j < i) => futures[completed[j]].state = "collected"
    /\ futures' = [futures EXCEPT ![t].state = "collected"]
    /\ IF futures[t].raises
         THEN /\ opc' = "unwinding"
              /\ results' = results
         ELSE /\ opc' = opc
              /\ results' = Append(results,
                     [name |-> futures[t].name, status |-> futures[t].status,
                      exit_code |-> futures[t].exit_code, reason |-> futures[t].reason])
    /\ UNCHANGED <<served, walkVars, crawlVars, pureVars, completed, orchestration>>

\* The loop is over: the pool is left, the results are sorted and reported.
OrchReturn ==
    /\ opc = "pool"
    /\ \A t \in TrackNames : futures[t].state = "collected"
    /\ results' = SortByIndex(results)
    /\ orchestration' = Orchestration(results')
    /\ opc' = "returned"
    /\ UNCHANGED <<served, walkVars, crawlVars, pureVars, futures, completed>>

\* The exception leaves the "with": the pool's shutdown has waited for every
\* track, and run_specialist_orchestration raises.
OrchRaise ==
    /\ opc = "unwinding"
    /\ InState("pending") = {}
    /\ InState("running") = {}
    /\ opc' = "raised"
    /\ UNCHANGED <<served, walkVars, crawlVars, pureVars, futures, completed, results, orchestration>>

NextOrch ==
    \/ Submit
    \/ \E t \in TrackNames : TrackBegin(t)
    \/ \E t \in TrackNames : TrackEnd(t)
    \/ \E t \in TrackNames : Collect(t)
    \/ OrchReturn
    \/ OrchRaise

SpecOrch == InitOrch /\ [][NextOrch]_vars

\* ================================================================ claims

\* Some address the host resolves to is public.
HasPublicAddress(h) ==
    /\ Resolve(h).raises = ""
    /\ \E i \in 1..Len(Resolve(h).addrs) : Resolve(h).addrs[i] = "public"

\* The walker is no longer running.
WalkEnded == wpc \in {"done", "raised"}

\* The answer to the walker's last GET.
LastStatus == sent[Len(sent)].status

\* The 3xx responses the walk has traversed: those it followed to another GET.
Traversed == Cardinality({ i \in 1..Len(sent) : i < Len(sent) /\ 300 <= sent[i].status
                                                 /\ sent[i].status < 400 })

\* C1: fetch_page, called with a URL whose host resolves to no public address
\* or does not resolve, sends no HTTP request and returns a result with error
\* set and status_code None.
C1_NonPublicNeverRequested ==
    (walker = "fetch_page" /\ ~HasPublicAddress(result.url.host)) =>
        /\ sent = <<>>
        /\ WalkEnded => /\ wpc = "done"
                        /\ result.error # "None"
                        /\ result.status_code = NoStatus

\* C2: in each of the three walkers every GET goes to a URL that
\* is_public_target accepted since it became current_url, and that does
\* resolve to a public address; so no GET goes to the target of a hop that
\* resolves to no public address.
C2_EveryGetVetted ==
    \A i \in 1..Len(sent) : sent[i].vetted /\ HasPublicAddress(sent[i].url.host)

\* C2's case: a walk of two or more GETs that ended at a redirect to the
\* intranet host, which got no request.
C2_Witness ==
    /\ wpc = "done"
    /\ Len(sent) >= 2
    /\ served[Res(current_url)].known
    /\ served[Res(current_url)].location = LocationOf(Https(Intranet, RootPath))
    /\ \A i \in 1..Len(sent) : sent[i].url.host # Intranet

\* C6 as claimed: whenever fetch_page has returned, the hop count of its
\* result, and of the PageResult the crawl stored for it, is the number of
\* 3xx responses traversed.
C6_HopsAlwaysRecorded ==
    /\ (walker = "fetch_page" /\ wpc = "done") => result.redirect_hops = Traversed
    /\ (walker = "fetch_page" /\ wpc = "idle" /\ pages # <<>>) =>
           pages[Len(pages)].redirect_hops = Traversed

\* C6 as amended: when fetch_page returns a response (error None), the hop
\* count of its result and of the PageResult stored for it is the number of
\* 3xx responses traversed (a 3xx without Location, returned as the final
\* response, is not one); when it returns an error, both record 0 hops.
C6_HopsRecordedOnResponse ==
    /\ (walker = "fetch_page" /\ wpc = "done") =>
           result.redirect_hops = IF result.error = "None" THEN Traversed ELSE 0
    /\ (walker = "fetch_page" /\ wpc = "idle" /\ pages # <<>>) =>
           pages[Len(pages)].redirect_hops =
               IF pages[Len(pages)].fetch_error = "None" THEN Traversed ELSE 0

\* C6's case: the crawl stored a page fetched through two or more hops.
C6_Witness ==
    /\ walker = "fetch_page"
    /\ wpc = "idle"
    /\ pages # <<>>
    /\ pages[Len(pages)].fetch_error = "None"
    /\ pages[Len(pages)].redirect_hops >= 2
    /\ Traversed = pages[Len(pages)].redirect_hops

\* C7: fetch_page follows at most 10 hops and sends at most 11 GETs; an
\* eleventh redirect makes it return the error "Too many redirects (>10)"
\* with status_code None; a walk that ends at a response that is no redirect
\* returns it, with no error.
C7_RedirectCap ==
    walker = "fetch_page" =>
        /\ redirect_hops <= MAX_REDIRECT_HOPS
        /\ Len(sent) <= MAX_REDIRECT_HOPS + 1
        /\ (wpc = "done" /\ Len(sent) = MAX_REDIRECT_HOPS + 1 /\ LastStatus = 301
              /\ served[Res(current_url)].location.present) =>
                 /\ result.error = "Too many redirects (>10)"
                 /\ result.status_code = NoStatus
        /\ (wpc = "done" /\ sent # <<>> /\ LastStatus \in {200, 404}) =>
                 /\ result.error = "None"
                 /\ result.status_code = LastStatus
                 /\ result.redirect_hops = Len(sent) - 1

\* C7's case: a self-redirect followed 10 times, stopped at the eleventh.
C7_Witness ==
    /\ walker = "fetch_page"
    /\ wpc = "done"
    /\ result.error = "Too many redirects (>10)"
    /\ redirect_hops = MAX_REDIRECT_HOPS
    /\ Len(sent) = MAX_REDIRECT_HOPS + 1

\* crawl_site has returned or has been left by an exception.
CrawlEnded == pc \in {"done", "raised"}

\* The crawl under the scheduling of a single thread: a step that can be taken
\* is taken.
FairSpec == Spec /\ WF_vars(Next)

\* C3: crawl_site terminates (it returns, or an exception of fetch_page leaves
\* it); every iteration that processes a URL adds a new one to seen, so no URL
\* is processed twice; and when it returns the queue is exhausted or |seen|
\* has reached max_pages.
C3_CrawlTerminates ==
    /\ <>CrawlEnded
    /\ [](Len(pages) + crawl_info.skipped_by_robots <= Cardinality(seen))
    /\ [](pc = "done" => (queue = <<>> \/ Cardinality(seen) >= max_pages))

\* C3's case: a crawl over a cycle of links (two pages that link to each
\* other) returned with its queue exhausted.
C3_Witness ==
    /\ pc = "done"
    /\ queue = <<>>
    /\ \E i, j \in 1..Len(pages) :
          /\ i # j
          /\ \E k \in 1..Len(pages[i].internal_links) :
                pages[i].internal_links[k] = pages[j].url
          /\ \E k \in 1..Len(pages[j].internal_links) :
                pages[j].internal_links[k] = pages[i].url

\* C8: the crawl processes at most max_pages queue URLs, len(pages) +
\* skipped_by_robots <= max_pages, and a page fetch is started only while
\* fewer than max_pages URLs had been seen before its own.
C8_PageBudget ==
    /\ Len(pages) + crawl_info.skipped_by_robots <= max_pages
    /\ pc = "fetching" => Cardinality(seen \ {current}) < max_pages

\* C8's case: the budget ended a crawl that had URLs left in its queue.
C8_Witness ==
    /\ pc = "done"
    /\ max_pages >= 2
    /\ queue # <<>>
    /\ Len(pages) + crawl_info.skipped_by_robots = max_pages
    /\ crawl_info.skipped_by_robots >= 1

\* The site's pages that links lead to from the start page.
RECURSIVE ReachableFrom(_)
ReachableFrom(S) ==
    LET more == S \cup { Res(l) : l \in UNION { served[r].links : r \in S } }
    IN  IF more = S THEN S ELSE ReachableFrom(more)

ReachablePages == ReachableFrom({Res(start_url)})

\* The run C9 is about: every reachable page has answered with a response
\* that is no redirect, no robots rule denies anything, no fetch failed, and
\* the budget covers the reachable pages.
C9_Scenario ==
    /\ pc = "done"
    /\ \A r \in ReachablePages :
          served[r].known /\ ~served[r].exc /\ served[r].status \in {200, 404}
    /\ (~rp.present \/ rp.disallow = {})
    /\ crawl_info.fetch_errors = 0
    /\ \A i \in 1..Len(pages) : pages[i].redirect_hops = 0
    /\ max_pages >= Cardinality(ReachablePages)

\* C9: in that run crawl_site returns exactly one PageResult per reachable
\* page, visited is their number, and skipped_by_robots is 0.
C9_EndToEnd ==
    C9_Scenario =>
        /\ Len(pages) = Cardinality(ReachablePages)
        /\ crawl_info.visited = Cardinality(ReachablePages)
        /\ crawl_info.skipped_by_robots = 0

\* C9 where every link is spelled in normalized form: the three-page chain
\* home -> /a -> /b is crawled as the scenario says.
C9_ThreePageChain ==
    /\ C9_Scenario
    /\ Cardinality(ReachablePages) = 3
    /\ Len(pages) = 3
    /\ crawl_info.visited = 3

\* run_specialist_orchestration has returned or has raised.
OrchEnded == opc \in {"returned", "raised"}

\* The track's result is in the reported tracks with this status.
Reported(t, status) ==
    \E i \in 1..Len(orchestration.tracks) :
        /\ orchestration.tracks[i].name = t
        /\ orchestration.tracks[i].status = status

\* C4: when the output directories could be created and a track raised in
\* its worker or ran past its timeout, the orchestration still returns, and
\* every other track whose subprocess exited with 0 is reported with status ok.
C4_Isolation ==
    (/\ OrchEnded
     /\ \A t \in TrackNames : futures[t].mkdir_ok
     /\ \E t \in TrackNames : futures[t].raises \/ futures[t].reason = "timeout") =>
        /\ opc = "returned"
        /\ \A u \in TrackNames :
              (~futures[u].raises /\ futures[u].exit_code = 0) => Reported(u, "ok")

\* C4's case without the exception: a track timed out, the others exited
\* with 0 and are reported ok.
C4_TimeoutIsolated ==
    /\ opc = "returned"
    /\ \E t \in TrackNames :
          /\ futures[t].reason = "timeout"
          /\ Reported(t, "failed")
          /\ \A u \in TrackNames \ {t} : futures[u].exit_code = 0 /\ Reported(u, "ok")

\* The names of a sequence of track results.
Names(rs) == [i \in 1..Len(rs) |-> rs[i].name]

\* C5: whatever the order in which the tracks complete, the reported tracks
\* are in the order of the track menu, and so are the failed tracks.
C5_MenuOrder ==
    opc = "returned" =>
        /\ Names(orchestration.tracks) = track_specs
        /\ orchestration.failed_tracks =
              SelectSeq(track_specs, LAMBDA name : Reported(name, "failed"))

\* C5's case: the last track of the menu completed first, and two or more
\* tracks failed.
C5_Witness ==
    /\ opc = "returned"
    /\ completed[1] = track_specs[Len(track_specs)]
    /\ Len(orchestration.failed_tracks) >= 2

\* C10: whenever the output directories could be created,
\* run_specialist_orchestration returns (it does not raise) a result with
\* total_tracks the number of submitted tracks, success_count +
\* len(failed_tracks) = total_tracks, and failed_tracks the names of the
\* tracks whose status is not ok.
C10_PartialFailureReported ==
    (OrchEnded /\ \A t \in TrackNames : futures[t].mkdir_ok) =>
        /\ opc = "returned"
        /\ orchestration.total_tracks = Len(track_specs)
        /\ orchestration.success_count + Len(orchestration.failed_tracks)
              = orchestration.total_tracks
        /\ \A t \in TrackNames :
              (\E i \in 1..Len(orchestration.failed_tracks) :
                   orchestration.failed_tracks[i] = t)
              <=> futures[t].status # "ok"

\* C10's case without the exception: some tracks failed (a non-zero exit, a
\* timeout), and the result reports them.
C10_FailuresReported ==
    /\ opc = "returned"
    /\ \E t, u \in TrackNames :
          /\ futures[t].exit_code = 1
          /\ futures[u].reason = "timeout"
    /\ orchestration.success_count >= 1
    /\ Len(orchestration.failed_tracks) >= 2

\* The URLs crawl_site holds in its queue or in seen, or has handed to a GET.
CrawlUrls ==
    seen \cup { queue[i] : i \in 1..Len(queue) }
         \cup (IF walker = "fetch_page" THEN { sent[i].url : i \in 1..Len(sent) } ELSE {})

\* C11: no two PageResults of crawl_site's list have the same url.
C11_UniquePageUrls ==
    \A i, j \in 1..Len(pages) : i # j => pages[i].url # pages[j].url

\* C11's case with every link spelled in normalized form: two queue URLs
\* whose fetches ended at the same final URL gave two PageResults with that url.
C11_SameFinalUrl ==
    /\ pc = "done"
    /\ \A u \in seen : u = NormalizeUrl(u)
    /\ \E i, j \in 1..Len(pages) :
          /\ i < j
          /\ pages[i].url = pages[j].url
          /\ pages[j].fetch_error = "None"
          /\ pages[j].redirect_hops >= 1

\* C12: every URL crawl_site puts in its queue or in seen, or fetches, is in
\* normalized form.
C12_OnlyNormalizedUrls ==
    \A u \in CrawlUrls : u = NormalizeUrl(u)

\* C12's case: two spellings of the start page are both in seen, and both
\* were fetched.
C12_TwoSpellingsSeen ==
    /\ pc = "done"
    /\ Https(Site, EmptyPath) \in seen
    /\ Https(Site, RootPath) \in seen
    /\ Len(pages) >= 2
    /\ \A i \in 1..Len(pages) : pages[i].url = Https(Site, RootPath)

\* ------------------------------------------------ normalize_url on strings

\* Most slashes an input of normalize_url has between its scheme and its host.
MaxSlashes == 2

\* A string is the sequence of its tokens: a word (letters, digits and "."
\* only, the first a letter) or one of the characters : / ; ? # and the space.
Words == {"https", "HTTP", "http", "ftp", "example.com", "a"}

\* str.lower()
Lower(s) == [i \in 1..Len(s) |-> IF s[i] = "HTTP" THEN "http" ELSE s[i]]

RECURSIVE LStrip(_)
\* str.lstrip(): the leading spaces dropped.
LStrip(s) == IF s # <<>> /\ Head(s) = " " THEN LStrip(Tail(s)) ELSE s

RECURSIVE RStrip(_)
RStrip(s) == IF s # <<>> /\ s[Len(s)] = " " THEN RStrip(SubSeq(s, 1, Len(s) - 1)) ELSE s

\* str.strip()
Strip(s) == RStrip(LStrip(s))

\* str.find(c, start) for one of the characters of chars: the first place at
\* or after start, 0 when there is none.
Find(s, chars, start) ==
    LET hits == { i \in start..Len(s) : s[i] \in chars }
    IN  IF hits = {} THEN 0 ELSE CHOOSE i \in hits : \A j \in hits : i <= j

\* str.rfind(c): the last place, 0 when there is none.
RFind(s, chars) ==
    LET hits == { i \in 1..Len(s) : s[i] \in chars }
    IN  IF hits = {} THEN 0 ELSE CHOOSE i \in hits : \A j \in hits : i >= j

\* s[i:] and s[:i] with places counted from 1.
From(s, i) == SubSeq(s, i, Len(s))

Upto(s, i) == SubSeq(s, 1, i)

\* url[:2] == '//'
DoubleSlash(s) == Len(s) >= 2 /\ s[1] = "/" /\ s[2] = "/"

\* urlsplit, last step: the query split off at the first "?".
SplitQuery(scheme, netloc, url, fragment) ==
    LET q == Find(url, {"?"}, 1)
    IN  [scheme |-> scheme, netloc |-> netloc,
         path |-> IF q > 0 THEN Upto(url, q - 1) ELSE url,
         params |-> <<>>,
         query |-> IF q > 0 THEN From(url, q + 1) ELSE <<>>,
         fragment |-> fragment]

\* urlsplit, third step: the fragment split off at the first "#".
SplitFragment(scheme, netloc, url) ==
    LET h == Find(url, {"#"}, 1)
    IN  SplitQuery(scheme, netloc,
                   IF h > 0 THEN Upto(url, h - 1) ELSE url,
                   IF h > 0 THEN From(url, h + 1) ELSE <<>>)

\* urlsplit, second step: the netloc after a leading "//" up to the first of
\* / ? #.
SplitNetloc(scheme, url) ==
    LET wdelim == Find(url, {"/", "?", "#"}, 3)
    IN  IF DoubleSlash(url)
          THEN IF wdelim = 0
                 THEN SplitFragment(scheme, From(url, 3), <<>>)
                 ELSE SplitFragment(scheme, SubSeq(url, 3, wdelim - 1), From(url, wdelim))
          ELSE SplitFragment(scheme, <<>>, url)

\* urlsplit, first step: the scheme up to the first ":" when all before it
\* are scheme characters, lowercased.
SplitScheme(url) ==
    LET i == Find(url, {":"}, 1)
    IN  IF i > 1 /\ \A k \in 1..(i - 1) : url[k] \in Words
          THEN SplitNetloc(Lower(Upto(url, i - 1)), From(url, i + 1))
          ELSE SplitNetloc(<<>>, url)

\* urllib.parse.urlsplit, of the url without its leading spaces.
urlsplit(url0) == SplitScheme(LStrip(url0))

\* The schemes of urllib's uses_params and uses_netloc that the tokens spell.
uses_params == { <<>>, <<"ftp">>, <<"http">>, <<"https">> }

uses_netloc == { <<>>, <<"ftp">>, <<"http">>, <<"https">> }

\* urlparse's _splitparams: the params split off the last segment of the
\* path at its first ";".
SplitParams(r) ==
    LET i == Find(r.path, {";"}, IF RFind(r.path, {"/"}) > 0 THEN RFind(r.path, {"/"}) ELSE 1)
    IN  IF r.scheme \in uses_params /\ i > 0
          THEN [r EXCEPT !.path = Upto(r.path, i - 1), !.params = From(r.path, i + 1)]
          ELSE r

\* urllib.parse.urlparse: urlsplit, then the params split off.
urlparse(url) == SplitParams(urlsplit(url))

\* ParseResult.hostname of a netloc without "@" or brackets: what comes before
\* the first ":", lowercased; <<>> stands for None.
Hostname(netloc) ==
    LET c == Find(netloc, {":"}, 1)
    IN  Lower(IF c > 0 THEN Upto(netloc, c - 1) ELSE netloc)

\* urllib.parse.urlunparse (with urlunsplit).
urlunparse(scheme, netloc, path, params, query, fragment) ==
    LET url1 == IF params # <<>> THEN path \o <<";">> \o params ELSE path
        url2 == IF netloc # <<>>
                   \/ (scheme # <<>> /\ scheme \in uses_netloc /\ ~DoubleSlash(url1))
                  THEN <<"/", "/">> \o netloc
                         \o (IF url1 # <<>> /\ url1[1] # "/" THEN <<"/">> ELSE <<>>) \o url1
                  ELSE url1
        url3 == IF scheme # <<>> THEN scheme \o <<":">> \o url2 ELSE url2
        url4 == IF query # <<>> THEN url3 \o <<"?">> \o query ELSE url3
    IN  IF fragment # <<>> THEN url4 \o <<"#">> \o fragment ELSE url4

\* "if not parsed.scheme: value = f'https://{value}'; parsed = urlparse(value)"
WithDefaultScheme(value) ==
    IF urlparse(value).scheme = <<>>
      THEN urlparse(<<"https", ":", "/", "/">> \o value)
      ELSE urlparse(value)

\* normalize_url up to its scheme test: the parse it works on.
Parsed(raw_url) == WithDefaultScheme(Strip(raw_url))

\* normalize_url raises ValueError("Unsupported URL scheme").
Unsupported(raw_url) == Parsed(raw_url).scheme \notin { <<"http">>, <<"https">> }

\* normalize_url after its scheme test: netloc and path defaulted, params
\* and fragment dropped, and the URL put together again.
Cleaned(parsed) ==
    urlunparse(parsed.scheme,
               IF parsed.netloc # <<>> THEN parsed.netloc ELSE Hostname(parsed.netloc),
               IF parsed.path # <<>> THEN parsed.path ELSE <<"/">>,
               <<>>, parsed.query, <<>>)

\* normalize_url's return value.
normalize_url(raw_url) == Cleaned(Parsed(raw_url))

\* The strings normalize_url is given: an optional scheme, slashes, host,
\* path, params, query and fragment, with or without spaces around and a
\* space at the end of the path.
RECURSIVE Slashes(_)
Slashes(n) == IF n = 0 THEN <<>> ELSE <<"/">> \o Slashes(n - 1)

RawUrls ==
    { lead \o scheme \o Slashes(n) \o host \o path \o params \o query \o fragment \o trail :
        lead \in { <<>>, <<" ">> },
        scheme \in { <<>>, <<"https", ":">>, <<"HTTP", ":">>, <<"ftp", ":">> },
        n \in 0..MaxSlashes,
        host \in { <<>>, <<"example.com">> },
        path \in { <<>>, <<"/">>, <<"/", "a">>, <<"/", "a", " ">> },
        params \in { <<>>, <<";", "a">> },
        query \in { <<>>, <<"?", "a">> },
        fragment \in { <<>>, <<"#", "a">> },
        trail \in { <<>>, <<" ">> } }

InitNormalize ==
    /\ served = [r \in Resources |-> NotRequested]
    /\ WalkIdle
    /\ CrawlIdle
    /\ OrchIdle
    /\ npc = "input"
    /\ raw \in RawUrls
    /\ normalized = <<>>
    /\ renormalized = <<>>
    /\ apc = "idle"
    /\ scores = <<>>
    /\ health = [health_score |-> 0, not_measured |-> <<>>]
    /\ ipc = "idle"
    /\ issues = <<>>

\* normalize_url(raw) raises.
NormalizeRaise ==
    /\ npc = "input"
    /\ Unsupported(raw)
    /\ npc' = "raised"
    /\ UNCHANGED <<served, walkVars, crawlVars, orchVars, raw, normalized, renormalized,
                   apc, scores, health, ipc, issues>>

\* normalized = normalize_url(raw)
NormalizeOnce ==
    /\ npc = "input"
    /\ ~Unsupported(raw)
    /\ normalized' = normalize_url(raw)
    /\ npc' = "once"
    /\ UNCHANGED <<served, walkVars, crawlVars, orchVars, raw, renormalized,
                   apc, scores, health, ipc, issues>>

\* renormalized = normalize_url(normalized)
NormalizeTwice ==
    /\ npc = "once"
    /\ IF Unsupported(normalized)
         THEN npc' = "raised" /\ renormalized' = renormalized
         ELSE npc' = "twice" /\ renormalized' = normalize_url(normalized)
    /\ UNCHANGED <<served, walkVars, crawlVars, orchVars, raw, normalized,
                   apc, scores, health, ipc, issues>>

NextNormalize ==
    \/ NormalizeRaise
    \/ NormalizeOnce
    \/ NormalizeTwice

SpecNormalize == InitNormalize /\ [][NextNormalize]_vars

\* C13: normalizing the result of normalize_url again gives the same string.
C13_Idempotent ==
    npc = "twice" => renormalized = normalized

\* C13's case where it holds: a URL with an upper-case scheme, params, query
\* and fragment, normalized twice to the same string.
C13_StableUrl ==
    /\ npc = "twice"
    /\ raw = <<"HTTP", ":", "/", "/", "example.com", "/", "a", ";", "a", "?", "a", "#", "a">>
    /\ normalized = <<"http", ":", "/", "/", "example.com", "/", "a", "?", "a">>
    /\ renormalized = normalized

\* C14: what normalize_url returns has scheme http or https, a host, a path
\* and no fragment; an input with another scheme is rejected.
C14_ValidTarget ==
    /\ npc \in {"once", "twice"} =>
          /\ urlparse(normalized).scheme \in { <<"http">>, <<"https">> }
          /\ Hostname(urlparse(normalized).netloc) # <<>>
          /\ urlparse(normalized).path # <<>>
          /\ urlparse(normalized).fragment = <<>>
    /\ (npc # "input" /\ urlparse(Strip(raw)).scheme = <<"ftp">>) => npc = "raised"

\* C14's case where it holds: a host without scheme or path gets https and "/".
C14_Defaulted ==
    /\ npc = "once"
    /\ raw = <<"example.com">>
    /\ normalized = <<"https", ":", "/", "/", "example.com", "/">>

\* ------------------------------------------------- aggregate_health_score

\* Number of categories a score map is drawn from (the first ones of WEIGHTS).
NumCategories == 3

\* "score is None", among scores counted in tenths of a point.
NoScore == -1

\* WEIGHTS, in hundredths.
WEIGHTS ==
    [technical |-> 25, content |-> 25, onpage |-> 20, schema |-> 10,
     performance |-> 10, images |-> 5, ai_readiness |-> 5]

\* The keys of WEIGHTS in their order.
CategoryMenu ==
    <<"technical", "content", "onpage", "schema", "performance", "images", "ai_readiness">>

Categories == { CategoryMenu[i] : i \in 1..NumCategories }

\* The scores of a category, in tenths: None, or a value of [0, 100] rounded
\* to one decimal.
ScoreValues == {NoScore, 0, 600, 800, 1000}

\* The score maps: dicts as the sequence of their items, in insertion order,
\* no key twice; a category may be absent.
ScoreMaps ==
    UNION { { s \in [1..k -> [name : Categories, score : ScoreValues]] :
                \A i, j \in 1..k : i # j => s[i].name # s[j].name } :
            k \in 0..NumCategories }

\* round(n / d, 1) of a value counted in tenths: to the nearest, a tie to even.
Round(n, d) ==
    LET q == n \div d
        r == n % d
    IN  IF 2 * r < d THEN q
        ELSE IF 2 * r > d THEN q + 1
        ELSE IF q % 2 = 0 THEN q ELSE q + 1

\* list(scores.keys())
Keys(items) == [i \in 1..Len(items) |-> items[i].name]

\* The mutant of Accumulate used for C15: a None score counted as 0 with its
\* weight, so that the composite is not renormalized.
AccumulateNoneAsZero(acc, name, score) ==
    IF score = NoScore
      THEN [acc EXCEPT !.not_measured = Append(@, name),
                       !.used_weights = @ + WEIGHTS[name]]
      ELSE [acc EXCEPT !.weighted_sum = @ + score * WEIGHTS[name],
                       !.used_weights = @ + WEIGHTS[name]]

\* The mutant of Accumulate used for C17: a None score skipped without being
\* reported.
AccumulateNoneUnreported(acc, name, score) ==
    IF score = NoScore
      THEN acc
      ELSE [acc EXCEPT !.weighted_sum = @ + score * WEIGHTS[name],
                       !.used_weights = @ + WEIGHTS[name]]

\* One turn of "for name, score in scores.items()".
Accumulate(acc, name, score) ==
    IF score = NoScore
      THEN [acc EXCEPT !.not_measured = Append(@, name)]
      ELSE [acc EXCEPT !.weighted_sum = @ + score * WEIGHTS[name],
                       !.used_weights = @ + WEIGHTS[name]]

RECURSIVE Loop(_, _)
\* The loop over the items, from the accumulators acc.
Loop(acc, items) ==
    IF items = <<>> THEN acc
    ELSE Loop(Accumulate(acc, Head(items).name, Head(items).score), Tail(items))

\* The mutant of NothingMeasured: no category reported.
NothingMeasuredNoneReported(items) == [health_score |-> 0, not_measured |-> <<>>]

\* "if used_weights == 0: return 0.0, list(scores.keys())"
NothingMeasured(items) == [health_score |-> 0, not_measured |-> Keys(items)]

\* aggregate_health_score(scores): (health_score in tenths, not_measured).
aggregate_health_score(items) ==
    LET acc == Loop([used_weights |-> 0, weighted_sum |-> 0, not_measured |-> <<>>], items)
    IN  IF acc.used_weights = 0
          THEN NothingMeasured(items)
          ELSE [health_score |-> Round(acc.weighted_sum, acc.used_weights),
                not_measured |-> acc.not_measured]

InitAggregate ==
    /\ served = [r \in Resources |-> NotRequested]
    /\ WalkIdle
    /\ CrawlIdle
    /\ OrchIdle
    /\ npc = "idle"
    /\ raw = <<>>
    /\ normalized = <<>>
    /\ renormalized = <<>>
    /\ apc = "input"
    /\ scores \in ScoreMaps
    /\ health = [health_score |-> 0, not_measured |-> <<>>]
    /\ ipc = "idle"
    /\ issues = <<>>

\* health_score, not_measured = aggregate_health_score(scores)
Aggregate ==
    /\ apc = "input"
    /\ health' = aggregate_health_score(scores)
    /\ apc' = "returned"
    /\ UNCHANGED <<served, walkVars, crawlVars, orchVars, npc, raw, normalized, renormalized,
                   scores, ipc, issues>>

NextAggregate == Aggregate

SpecAggregate == InitAggregate /\ [][NextAggregate]_vars

\* The places of the score map whose score is not None.
Measured == { i \in 1..Len(scores) : scores[i].score # NoScore }

RECURSIVE WeightOf(_)
\* The weights of the categories at the places S, added up.
WeightOf(S) ==
    IF S = {} THEN 0
    ELSE LET i == CHOOSE x \in S : TRUE IN WEIGHTS[scores[i].name] + WeightOf(S \ {i})

RECURSIVE WeightedScoreOf(_)
\* The scores at the places S, each times the weight of its category, added up.
WeightedScoreOf(S) ==
    IF S = {} THEN 0
    ELSE LET i == CHOOSE x \in S : TRUE
         IN  scores[i].score * WEIGHTS[scores[i].name] + WeightedScoreOf(S \ {i})

\* The names of the entries whose score is None, in the order of the map.
NullNames == Keys(SelectSeq(scores, LAMBDA item : item.score = NoScore))

\* C15: the composite is the weighted mean of the scores that are not None,
\* over the weights of those categories only, rounded to one decimal, and
\* not_measured is exactly the categories whose score is None.
C15_Renormalized ==
    apc = "returned" =>
        /\ health.not_measured = NullNames
        /\ Measured # {} =>
              health.health_score =
                  Round(WeightedScoreOf(Measured), WeightOf(Measured))

\* C15's case: {technical: 80, content: None, onpage: 60} gives 71.1 with
\* content not measured.
C15_Witness ==
    /\ apc = "returned"
    /\ scores = << [name |-> "technical", score |-> 800],
                   [name |-> "content", score |-> NoScore],
                   [name |-> "onpage", score |-> 600] >>
    /\ health = [health_score |-> 711, not_measured |-> <<"content">>]

\* C16: when every score of the map is None, the composite is 0 and every
\* category of the map is reported as not measured.
C16_WorstCase ==
    (apc = "returned" /\ scores # <<>> /\ Measured = {}) =>
        /\ health.health_score = 0
        /\ health.not_measured = Keys(scores)

\* C16's case: every category of the model is in the map, with score None.
C16_Witness ==
    /\ apc = "returned"
    /\ Len(scores) = NumCategories
    /\ Measured = {}
    /\ health.health_score = 0
    /\ Len(health.not_measured) = NumCategories

\* The score map without its i-th item.
Omit(items, i) == SubSeq(items, 1, i - 1) \o SubSeq(items, i + 1, Len(items))

\* C17 as claimed: omitting the key of a None entry changes neither the
\* composite nor the not_measured list.
C17_AbsentSameAsNull ==
    apc = "returned" =>
        \A i \in 1..Len(scores) :
            scores[i].score = NoScore => aggregate_health_score(Omit(scores, i)) = health

\* C17 as amended: omitting the key of a None entry does not change the
\* composite; the entry is in not_measured when present, and omitting it
\* removes that one name from the list.
C17_AbsentKeepsComposite ==
    apc = "returned" =>
        \A i \in 1..Len(scores) :
            scores[i].score = NoScore =>
                LET without == aggregate_health_score(Omit(scores, i))
                IN  /\ without.health_score = health.health_score
                    /\ \E k \in 1..Len(health.not_measured) :
                          /\ health.not_measured[k] = scores[i].name
                          /\ without.not_measured = Omit(health.not_measured, k)

\* C17's case: a map with a measured category and a None one.
C17_Witness ==
    /\ apc = "returned"
    /\ Measured # {}
    /\ health.not_measured # <<>>
    /\ health.health_score > 0

\* ---------------------------------------------- compute_scores: the issues

PRIORITY_ORDER == [Critical |-> 0, High |-> 1, Medium |-> 2, Low |-> 3]

\* The issues compute_scores can append, in the order of its code, each with
\* the priorities it can carry.
IssueMenu ==
    << [title |-> "No HTML pages crawled",         priorities |-> {"High"}],
       [title |-> "HTTP errors during crawl",      priorities |-> {"Critical"}],
       [title |-> "Noindex directives detected",   priorities |-> {"Critical", "High"}],
       [title |-> "Missing title tags",            priorities |-> {"High"}],
       [title |-> "Missing meta descriptions",     priorities |-> {"High"}],
       [title |-> "Thin content footprint",        priorities |-> {"High"}],
       [title |-> "Missing robots.txt",            priorities |-> {"Medium"}],
       [title |-> "Missing sitemap.xml",           priorities |-> {"Medium"}],
       [title |-> "Missing security headers",      priorities |-> {"High", "Medium"}],
       [title |-> "Missing llms.txt",              priorities |-> {"Low"}],
       [title |-> "Images missing alt text",       priorities |-> {"Medium"}],
       [title |-> "Poor field LCP (mobile)",       priorities |-> {"High"}],
       [title |-> "Poor field INP (mobile)",       priorities |-> {"High"}],
       [title |-> "Poor field CLS (mobile)",       priorities |-> {"High"}],
       [title |-> "Live CWV API data unavailable", priorities |-> {"Low"}] >>

\* The titles of the menu as str comparison orders them.
TitlesAscending ==
    << "HTTP errors during crawl", "Images missing alt text", "Live CWV API data unavailable",
       "Missing llms.txt", "Missing meta descriptions", "Missing robots.txt",
       "Missing security headers", "Missing sitemap.xml", "Missing title tags",
       "No HTML pages crawled", "Noindex directives detected", "Poor field CLS (mobile)",
       "Poor field INP (mobile)", "Poor field LCP (mobile)", "Thin content footprint" >>

\* The place of a title among the titles in ascending order.
TitleRank(title) == CHOOSE i \in 1..Len(TitlesAscending) : TitlesAscending[i] = title

\* The place of a title in the code of compute_scores.
MenuIndex(title) == CHOOSE k \in 1..Len(IssueMenu) : IssueMenu[k].title = title

Titles(list) == { list[i].title : i \in 1..Len(list) }

\* The issues counted over pages_html, which html_count == 0 leaves at 0.
OverHtmlPages ==
    {"Noindex directives detected", "Missing title tags", "Missing meta descriptions",
     "Thin content footprint", "Images missing alt text"}

\* The issues of the branch cwv["status"] == "ok".
FieldData == {"Poor field LCP (mobile)", "Poor field INP (mobile)", "Poor field CLS (mobile)"}

\* Whether the conditions of compute_scores allow the issue title after the
\* issues collected.
CanCollect(title, collected) ==
    /\ \A t \in Titles(collected) : MenuIndex(t) < MenuIndex(title)
    /\ title \in OverHtmlPages => "No HTML pages crawled" \notin Titles(collected)
    /\ title = "Live CWV API data unavailable" => Titles(collected) \cap FieldData = {}

\* PRIORITY_ORDER.get(priority, 99)
PriorityRank(priority) ==
    IF priority \in DOMAIN PRIORITY_ORDER THEN PRIORITY_ORDER[priority] ELSE 99

\* The mutant of SortKey: the priority alone.
SortKeyPriorityOnly(issue) == <<PriorityRank(issue.priority), 0>>

\* key=lambda issue: (PRIORITY_ORDER.get(issue["priority"], 99), issue["title"])
SortKey(issue) == <<PriorityRank(issue.priority), TitleRank(issue.title)>>

\* The comparison of two key tuples.
TupleLess(a, b) == a[1] < b[1] \/ (a[1] = b[1] /\ a[2] < b[2])

RECURSIVE Insert(_, _)
\* issue put into the sorted list after every item whose key is not greater.
Insert(issue, list) ==
    IF list = <<>> THEN <<issue>>
    ELSE IF TupleLess(SortKey(issue), SortKey(Head(list))) THEN <<issue>> \o list
    ELSE <<Head(list)>> \o Insert(issue, Tail(list))

RECURSIVE SortByKey(_)
\* list.sort(key=...): a stable sort by the keys.
SortByKey(list) ==
    IF list = <<>> THEN <<>>
    ELSE Insert(list[Len(list)], SortByKey(SubSeq(list, 1, Len(list) - 1)))

InitIssues ==
    /\ served = [r \in Resources |-> NotRequested]
    /\ WalkIdle
    /\ CrawlIdle
    /\ OrchIdle
    /\ npc = "idle"
    /\ raw = <<>>
    /\ normalized = <<>>
    /\ renormalized = <<>>
    /\ apc = "idle"
    /\ scores = <<>>
    /\ health = [health_score |-> 0, not_measured |-> <<>>]
    /\ ipc = "collect"
    /\ issues = <<>>

\* issues.append(make_issue(priority=..., title=...)), where a condition holds.
CollectIssue ==
    /\ ipc = "collect"
    /\ \E k \in 1..Len(IssueMenu) :
          /\ CanCollect(IssueMenu[k].title, issues)
          /\ \E p \in IssueMenu[k].priorities :
                issues' = Append(issues, [priority |-> p, title |-> IssueMenu[k].title])
    /\ UNCHANGED <<served, walkVars, crawlVars, orchVars, npc, raw, normalized, renormalized,
                   apc, scores, health, ipc>>

\* issues.sort(key=...)
SortIssues ==
    /\ ipc = "collect"
    /\ issues' = SortByKey(issues)
    /\ ipc' = "sorted"
    /\ UNCHANGED <<served, walkVars, crawlVars, orchVars, npc, raw, normalized, renormalized,
                   apc, scores, health>>

NextIssues == CollectIssue \/ SortIssues

SpecIssues == InitIssues /\ [][NextIssues]_vars

\* Critical before High before Medium before Low, anything else last.
Severity(priority) ==
    CASE priority = "Critical" -> 1
      [] priority = "High" -> 2
      [] priority = "Medium" -> 3
      [] priority = "Low" -> 4
      [] OTHER -> 5

\* C18: the sort makes the issue list a permutation of the collected issues
\* in which an issue of a higher severity comes first and, within one
\* severity, the titles ascend; the order is therefore fixed by the set of
\* the issues alone.
C18_Prioritized ==
    [][ (ipc = "collect" /\ ipc' = "sorted") =>
            /\ Len(issues') = Len(issues)
            /\ \A x \in { issues[i] : i \in 1..Len(issues) } :
                  Cardinality({ i \in 1..Len(issues) : issues[i] = x })
                      = Cardinality({ i \in 1..Len(issues') : issues'[i] = x })
            /\ \A i, j \in 1..Len(issues') :
                  i < j =>
                      \/ Severity(issues'[i].priority) < Severity(issues'[j].priority)
                      \/ /\ issues'[i].priority = issues'[j].priority
                         /\ TitleRank(issues'[i].title) < TitleRank(issues'[j].title) ]_vars

\* C18's case: issues collected as High "No HTML pages crawled", Critical
\* "HTTP errors during crawl", High "Missing security headers", Low
\* "Missing llms.txt" have been sorted.
C18_Witness ==
    /\ ipc = "sorted"
    /\ issues = << [priority |-> "Critical", title |-> "HTTP errors during crawl"],
                   [priority |-> "High", title |-> "Missing security headers"],
                   [priority |-> "High", title |-> "No HTML pages crawled"],
                   [priority |-> "Low", title |-> "Missing llms.txt"] >>

\* ------------------------------------------------------- robots.txt rules

\* The ruleset of the crawl has a Disallow prefix that matches the path of u.
Denied(u) ==
    /\ rp.present
    /\ \E d \in rp.disallow :
          IsPrefix(d, IF u.path = EmptyPath THEN RootPath ELSE u.path)

\* C19: an iteration that pops a URL not yet seen which the ruleset denies
\* adds 1 to skipped_by_robots, adds the URL to seen, starts no fetch and
\* sends no request, appends no PageResult, and goes back to the loop test.
C19_RobotsSkip ==
    [][ (pc = "loop" /\ queue # <<>> /\ Cardinality(seen) < max_pages
            /\ Head(queue) \notin seen /\ Denied(Head(queue))) =>
            /\ crawl_info'.skipped_by_robots = crawl_info.skipped_by_robots + 1
            /\ seen' = seen \cup {Head(queue)}
            /\ queue' = Tail(queue)
            /\ sent' = sent
            /\ wpc' = wpc
            /\ pages' = pages
            /\ pc' = "loop" ]_vars

\* C19's case: the crawl has ended after a page was fetched and a URL it
\* linked to was skipped: the URL is in seen and no PageResult has it.
C19_Witness ==
    /\ pc = "done"
    /\ crawl_info.skipped_by_robots >= 1
    /\ Len(pages) >= 1
    /\ \E u \in seen :
          /\ Denied(u)
          /\ \A i \in 1..Len(pages) : pages[i].url # u
          /\ \E i \in 1..Len(pages) : \E k \in 1..Len(pages[i].internal_links) : pages[i].internal_links[k] = u

\* The answer of the URL build_robots ended at, once build_robots has returned.
RobotsAnswer == served[Res(crawl_info.robots_url)]

RobotsReturned == pc \notin {"start", "robots"}

\* The robots.txt fetch got a 4xx/5xx response.
RobotsErrorStatus ==
    RobotsReturned /\ RobotsAnswer.known /\ ~RobotsAnswer.exc /\ RobotsAnswer.status >= 400

\* The robots.txt fetch raised: the host could not be reached.
RobotsUnreachable == RobotsReturned /\ RobotsAnswer.known /\ RobotsAnswer.exc

\* The robots.txt fetch got a body that is no robots.txt: an HTML document.
RobotsMalformed ==
    RobotsReturned /\ RobotsAnswer.known /\ ~RobotsAnswer.exc
        /\ RobotsAnswer.status = 200 /\ RobotsAnswer.html

\* C20 as claimed: after an error status, an unreachable host or a malformed
\* body, the ruleset is None and no URL is skipped.
C20_NoneWhenUnavailable ==
    (RobotsErrorStatus \/ RobotsUnreachable \/ RobotsMalformed) =>
        /\ ~rp.present
        /\ crawl_info.skipped_by_robots = 0

\* C20 as amended: build_robots never raises; after an error status or an
\* unreachable host the ruleset is None; after a malformed body it is a
\* ruleset without rules; in the three cases no URL is skipped.
C20_PermissiveWhenUnavailable ==
    /\ walker = "build_robots" => wpc # "raised"
    /\ (RobotsErrorStatus \/ RobotsUnreachable) => ~rp.present
    /\ RobotsMalformed => (rp.present /\ rp.disallow = {})
    /\ (RobotsErrorStatus \/ RobotsUnreachable \/ RobotsMalformed) =>
          crawl_info.skipped_by_robots = 0

\* C20's case: robots.txt answered 404 and the crawl went on to fetch the
\* start page and a page it links to.
C20_Witness ==
    /\ pc = "done"
    /\ RobotsErrorStatus
    /\ ~rp.present
    /\ crawl_info.skipped_by_robots = 0
    /\ Len(pages) >= 2
    /\ \A i \in 1..Len(pages) : pages[i].fetch_error = "None"

\* ------------------------------------------------------ failures of a fetch

\* fetch_page has failed for the URL of the running iteration: it has
\* returned with its error set, or an exception has left it.
FetchFailed ==
    /\ pc = "fetching"
    /\ \/ wpc = "raised"
       \/ wpc = "done" /\ result.error # "None"

\* The PageResults that carry a fetch_error.
FailedPages == { i \in 1..Len(pages) : pages[i].fetch_error # "None" }

\* C21: when fetch_page fails for the popped URL, the crawl appends one
\* PageResult for that URL with fetch_error set, no status code and no
\* structural signals, adds 1 to fetch_errors, keeps the URL in seen and is
\* back at the loop test; and when crawl_site has returned, fetch_errors is
\* the number of PageResults with fetch_error set.
C21_FailureRecovered ==
    /\ [][ FetchFailed =>
             /\ Len(pages') = Len(pages) + 1
             /\ SubSeq(pages', 1, Len(pages)) = pages
             /\ pages'[Len(pages')].url = current
             /\ pages'[Len(pages')].fetch_error # "None"
             /\ pages'[Len(pages')].status_code = NoStatus
             /\ pages'[Len(pages')].internal_links = <<>>
             /\ ~pages'[Len(pages')].is_html
             /\ crawl_info'.fetch_errors = crawl_info.fetch_errors + 1
             /\ current \in seen'
             /\ seen' = seen
             /\ pc' = "loop" ]_vars
    /\ [](pc = "done" => crawl_info.fetch_errors = Cardinality(FailedPages))

\* C21's case where the failure is recovered: the crawl has returned with the
\* PageResult of a failed fetch followed by the PageResult of a later fetch.
C21_Witness ==
    /\ pc = "done"
    /\ crawl_info.fetch_errors = 1
    /\ \E i, j \in 1..Len(pages) :
          /\ i < j
          /\ pages[i].fetch_error = "RequestException"
          /\ pages[i].status_code = NoStatus
          /\ pages[i].url \in seen
          /\ pages[j].fetch_error = "None"

\* fetch_page's error for a URL that is_public_target rejects.
Rejected == "redirected target URL resolves to non-public or invalid host"

\* C22: once fetch_page has rejected a URL or a redirect hop as non-public,
\* the run is over: the PageResult of the rejection, if one is recorded, is
\* the last one, and no further page is fetched.
C22_RejectionAborts ==
    \A i \in 1..Len(pages) :
        pages[i].fetch_error = Rejected => (i = Len(pages) /\ pc # "fetching")

\* C22's case: fetch_page has followed a redirect of a crawled page to a
\* host that resolves to no public address and has returned the rejection.
C22_Witness ==
    /\ pc = "fetching"
    /\ wpc = "done"
    /\ result.error = Rejected
    /\ Len(sent) >= 1
    /\ sent[Len(sent)].status = 301
    /\ Len(pages) >= 1

\* ------------------------------------------------------ tracks and timeouts

\* The TrackResult reported for track t, when there is one.
TrackResult(t) ==
    orchestration.tracks[CHOOSE i \in 1..Len(orchestration.tracks) :
                             orchestration.tracks[i].name = t]

HasTrackResult(t) ==
    \E i \in 1..Len(orchestration.tracks) : orchestration.tracks[i].name = t

\* C23: when a track's subprocess ran past the timeout and no other track
\* failed in its worker, the orchestration returns; the track is reported
\* failed with reason "timeout", a reason no track that ended otherwise has;
\* and every other track is reported with the status of its own exit code.
C23_TimeoutDistinct ==
    OrchEnded =>
        \A t \in TrackNames :
            (/\ futures[t].proc = "TimeoutExpired"
             /\ \A u \in TrackNames \ {t} : ~futures[u].raises) =>
                /\ opc = "returned"
                /\ HasTrackResult(t)
                /\ TrackResult(t).status = "failed"
                /\ TrackResult(t).reason = "timeout"
                /\ \A u \in TrackNames \ {t} :
                      /\ HasTrackResult(u)
                      /\ TrackResult(u).status
                            = (IF futures[u].proc = "exit0" THEN "ok" ELSE "failed")
                      /\ TrackResult(u).reason = "timeout"
                            <=> futures[u].proc = "TimeoutExpired"

\* C23's case without the exception: one track timed out, one could not be
\* started, one exited with 0, and the three are reported as such.
C23_Witness ==
    /\ opc = "returned"
    /\ \E t, u, v \in TrackNames :
          /\ futures[t].proc = "TimeoutExpired"
          /\ TrackResult(t).status = "failed" /\ TrackResult(t).reason = "timeout"
          /\ futures[u].proc = "OSError"
          /\ TrackResult(u).status = "failed" /\ TrackResult(u).reason # "timeout"
          /\ futures[v].proc = "exit0"
          /\ TrackResult(v).status = "ok"

\* ----------------------------------------------------------- no retries

\* The TrackResults collected for track t.
ResultsOf(t) == { i \in 1..Len(results) : results[i].name = t }

\* A track that has been started is not started again.
NotRelaunched ==
    \A t \in TrackNames :
        /\ futures[t].state \in {"running", "finished", "collected"}
              => futures'[t].state # "pending"
        /\ futures[t].state \in {"finished", "collected"}
              => futures'[t].state \in {"finished", "collected"}

\* No GET of a walker follows a GET that ended otherwise than in a redirect.
NoFetchRetried ==
    \A i \in 1..Len(sent) :
        i < Len(sent) => (300 <= sent[i].status /\ sent[i].status < 400)

\* C24: a track that has been started is never started again; when the
\* orchestration has ended every track has run and has exactly one
\* TrackResult; and no walker sends a GET after a GET that failed.
C24_ExactlyOnce ==
    /\ [][NotRelaunched]_vars
    /\ [](OrchEnded =>
             \A t \in TrackNames :
                 /\ futures[t].state \in {"finished", "collected"}
                 /\ Cardinality(ResultsOf(t)) = 1)
    /\ []NoFetchRetried

\* C24's case without the exception: a track exited with 1, another timed
\* out, the orchestration returned and holds one TrackResult for each track.
C24_Witness ==
    /\ opc = "returned"
    /\ \E t, u \in TrackNames :
          /\ futures[t].proc = "exit1"
          /\ futures[u].proc = "TimeoutExpired"
    /\ \A t \in TrackNames : Cardinality(ResultsOf(t)) = 1
    /\ Len(results) = Len(track_specs)

\* ------------------------------------------------------- the worker pool

\* The pool's workers are scheduled and every subprocess ends (by itself or
\* by its timeout), so every enabled step of the orchestration is taken.
FairSpecOrch == SpecOrch /\ WF_vars(NextOrch)

\* The tracks being executed.
Executing == { t \in TrackNames : futures[t].state = "running" }

RequestedPages == { i \in 1..Len(pages) : pages[i].fetch_error # Rejected }

\* C26: with delay > 0, when a page fetch starts, every earlier page fetch
\* that sent a request has been followed by a sleep of the delay.
C26_SleepBetweenFetches ==
    (delay > 0 /\ pc = "fetching") => sleeps >= Cardinality(RequestedPages)

\* C26's case where the sleep occurs: a second page fetch starts after a
\* first one that succeeded and was followed by one sleep.
C26_Witness ==
    /\ delay > 0
    /\ pc = "fetching"
    /\ wpc = "check"
    /\ Len(pages) = 1
    /\ pages[1].fetch_error = "None"
    /\ pages[1].status_code = 200
    /\ sleeps = 1

\* ----------------------------------------------------------- crawl scope

\* A host name without a leading "www." label.
WithoutWww(h) == IF Len(h) > 1 /\ Head(h) = "www" THEN Tail(h) ELSE h

\* Host h ends with host g: equal to it, or a subdomain of it.
WithinDomain(h, g) ==
    \E k \in 0..Len(h) : g = [i \in 1..(Len(h) - k) |-> h[k + i]]

\* The URL is on the start URL's site: the hosts, leading "www." dropped,
\* equal or one a subdomain of the other.
InScope(u) ==
    /\ WithoutWww(u.host) # <<>>
    /\ \/ WithinDomain(WithoutWww(u.host), WithoutWww(start_url.host))
       \/ WithinDomain(WithoutWww(start_url.host), WithoutWww(u.host))

\* The URLs a step adds to the queue are on the start URL's site and are not
\* in seen as the step leaves it.
EnqueuedUnseen ==
    \A i \in 1..Len(queue') :
        i > Len(queue) => (queue'[i] \notin seen' /\ InScope(queue'[i]))

\* C27: every URL on the queue, and every URL popped for a fetch, is on the
\* start URL's site, and a step that enqueues URLs enqueues only URLs that are
\* not in seen at that moment.
C27_CrawlScope ==
    /\ [](\A i \in 1..Len(queue) : InScope(queue[i]))
    /\ [](pc = "fetching" => InScope(current))
    /\ [][EnqueuedUnseen]_vars

\* C27's case: a recorded page lists a link to another site, which was not
\* enqueued, and the queue holds a link some recorded page lists.
C27_Witness ==
    /\ pc = "loop"
    /\ \E i \in 1..Len(pages) : \E j \in 1..Len(pages[i].internal_links) :
          /\ ~InScope(pages[i].internal_links[j])
          /\ pages[i].internal_links[j] \notin seen
          /\ \A k \in 1..Len(queue) : queue[k] # pages[i].internal_links[j]
    /\ \E k \in 1..Len(queue) : \E i \in 1..Len(pages) :
          \E j \in 1..Len(pages[i].internal_links) :
              queue[k] = pages[i].internal_links[j]

\* ------------------------------------------------ TrackResults on disk

\* The names of the TrackResults in ORCHESTRATION-SUMMARY.json: the file is
\* written once, from the dict run_specialist_orchestration returns, and
\* nothing else of a TrackResult is written.
OnDisk == { orchestration.tracks[i].name : i \in 1..Len(orchestration.tracks) }

\* The tracks whose run_track has returned a TrackResult.
CompletedTracks ==
    { t \in TrackNames : futures[t].state \in {"finished", "collected"} /\ ~futures[t].raises }

\* C28: the TrackResult of every track that has completed is on disk, while
\* other tracks are still pending or running and after a failed orchestration.
C28_WrittenOnCompletion == CompletedTracks \subseteq OnDisk

\* C28's results on disk: the orchestration has returned, and the results of
\* its tracks, one of them failed, are in the summary file.
C28_Witness ==
    /\ opc = "returned"
    /\ CompletedTracks = TrackNames
    /\ OnDisk = TrackNames
    /\ \E t \in TrackNames : futures[t].status = "failed"
    /\ \E t \in TrackNames : futures[t].status = "ok"

\* ------------------------------------------------------ crawl_info.visited

\* C29: when crawl_site has returned, crawl_info.visited is the number of
\* URLs in seen.
C29_VisitedIsSeen == pc = "done" => crawl_info.visited = Cardinality(seen)

\* C29's count when the last URL processed was fetched: crawl_site has
\* returned after a fetch error and a later successful fetch, and visited
\* counts every URL in seen.
C29_Witness ==
    /\ pc = "done"
    /\ Len(pages) >= 2
    /\ crawl_info.fetch_errors >= 1
    /\ pages[Len(pages)].fetch_error = "None"
    /\ crawl_info.visited = Cardinality(seen)
    /\ Cardinality(seen) >= 2

\* ------------------------------------------------ robots across redirects

\* C30: with a ruleset, no GET of fetch_page goes to a URL the ruleset
\* denies, redirect targets included, and no PageResult is recorded for one.
C30_RobotsAcrossRedirects ==
    /\ walker = "fetch_page" => \A i \in 1..Len(sent) : ~Denied(sent[i].url)
    /\ \A i \in 1..Len(pages) : ~Denied(pages[i].url)

\* C30's case where the rules are kept: under a ruleset that denies a path,
\* a page reached over a redirect to an allowed URL has been recorded, and no
\* request of that fetch went to a denied URL.
C30_Witness ==
    /\ pc = "loop"
    /\ rp.present
    /\ rp.disallow = {PathA}
    /\ walker = "fetch_page"
    /\ Len(sent) >= 2
    /\ \A i \in 1..Len(sent) : ~Denied(sent[i].url)
    /\ Len(pages) >= 1
    /\ pages[Len(pages)].redirect_hops >= 1
    /\ pages[Len(pages)].fetch_error = "None"
    /\ \A i \in 1..Len(pages) : ~Denied(pages[i].url)

====
